---- MODULE Spec2Model ----
(***************************************************************************)
(* Model of the Kubernetes diagnostic agent (src/agent.py, src/main.py,    *)
(* src/node_collector.py).                                                 *)
(*                                                                         *)
(* Text is modelled as a sequence of tokens.  A token is an atom: the      *)
(* Python test  p in s  becomes "some token of s equals p", and            *)
(* str.lower() maps every token to its lower-case form.  An f-string is    *)
(* the concatenation of its literal pieces and its interpolated values.   *)
(* Python's None is the one-token text None; a call of an external         *)
(* service either returns or raises, and what it raises is either the      *)
(* client library's ApiException or some other Exception.                  *)
(*                                                                         *)
(* Spec is the run of the agent, from main.py to the exit of the process.  *)
(* SpecHealth applies _is_pod_healthy, and SpecRules applies               *)
(* _get_rule_based_diagnosis, to every input of a bounded set.             *)
(***************************************************************************)
EXTENDS Integers, Sequences, FiniteSets, TLC

\* ------------------------------------------------------------------ bounds
MaxPods == 2
MaxContainers == 2
MaxEvents == 1
MaxTokens == 2

\* ------------------------------------------------------------------ text
None == <<"<None>">>

Truthy(s) == s # None /\ s # << >>

LowerTok(t) ==
    CASE t = "Connection Refused" -> "connection refused"
      [] t = "CONNECTION REFUSED" -> "connection refused"
      [] t = "File Not Found" -> "file not found"
      [] t = "No such file or directory" -> "no such file or directory"
      [] t = "Permission denied" -> "permission denied"
      [] t = "OOMKilled" -> "oomkilled"
      [] t = "CrashLoopBackOff" -> "crashloopbackoff"
      [] OTHER -> t

lower(s) == [i \in 1..Len(s) |-> LowerTok(s[i])]

Contains(s, p) == \E i \in 1..Len(s) : s[i] = p

RECURSIVE Join(_, _)
Join(lines, sep) ==
    IF lines = << >> THEN << >>
    ELSE IF Len(lines) = 1 THEN lines[1]
    ELSE lines[1] \o sep \o Join(Tail(lines), sep)

\* ------------------------------------------------------------------ rule engine
DiagOOM == <<"The container was terminated because it exceeded its memory limit.">>
RecOOM == <<"Increase the memory limit for this pod in your deployment's resource requests/limits.">>
DiagImagePull == <<"Kubernetes failed to pull the container image.">>
RecImagePull == <<"Check that the image name and tag are correct and that the cluster has credentials to pull from the registry.">>
DiagScheduling == <<"The pod could not be scheduled onto a node.">>
RecScheduling == <<"This is often due to insufficient resources (CPU, memory) or node taints. Check kubectl describe node.">>
DiagMount == <<"The pod failed to mount a required volume.">>
RecMount == <<"Verify that the volume exists in the namespace and is correctly named in the pod definition.">>
DiagConnRefused == <<"The application is crashing because it cannot connect to another service.">>
RecConnRefused == <<"Verify that the upstream service (e.g., database, API) is running and accessible.">>
DiagFileMissing == <<"The application is crashing because a required file is missing.">>
RecFileMissing == <<"Check that all necessary configuration files or scripts are correctly mounted.">>
DiagPermission == <<"The application is crashing due to a file system permission error.">>
RecPermission == <<"Check the user/group the container is running as and ensure it has correct permissions.">>

\* Mutant: the log predicates are tested without lower-casing the logs.
get_rule_based_diagnosis_case_sensitive(unhealthy_reason, pod_events, container_logs) ==
    IF Contains(unhealthy_reason, "OOMKilled") THEN <<DiagOOM, RecOOM>>
    ELSE IF Contains(unhealthy_reason, "ImagePullBackOff") THEN <<DiagImagePull, RecImagePull>>
    ELSE IF Contains(pod_events, "FailedScheduling") THEN <<DiagScheduling, RecScheduling>>
    ELSE IF Contains(pod_events, "FailedMount") THEN <<DiagMount, RecMount>>
    ELSE IF Contains(container_logs, "connection refused") THEN <<DiagConnRefused, RecConnRefused>>
    ELSE IF Contains(container_logs, "file not found")
            \/ Contains(container_logs, "no such file or directory")
         THEN <<DiagFileMissing, RecFileMissing>>
    ELSE IF Contains(container_logs, "permission denied") THEN <<DiagPermission, RecPermission>>
    ELSE <<None, None>>

\* Mutant: the log predicates are tested before the event predicates.
get_rule_based_diagnosis_logs_first(unhealthy_reason, pod_events, container_logs) ==
    IF Contains(unhealthy_reason, "OOMKilled") THEN <<DiagOOM, RecOOM>>
    ELSE IF Contains(unhealthy_reason, "ImagePullBackOff") THEN <<DiagImagePull, RecImagePull>>
    ELSE IF Contains(lower(container_logs), "connection refused") THEN <<DiagConnRefused, RecConnRefused>>
    ELSE IF Contains(lower(container_logs), "file not found")
            \/ Contains(lower(container_logs), "no such file or directory")
         THEN <<DiagFileMissing, RecFileMissing>>
    ELSE IF Contains(lower(container_logs), "permission denied") THEN <<DiagPermission, RecPermission>>
    ELSE IF Contains(pod_events, "FailedScheduling") THEN <<DiagScheduling, RecScheduling>>
    ELSE IF Contains(pod_events, "FailedMount") THEN <<DiagMount, RecMount>>
    ELSE <<None, None>>

\* _get_rule_based_diagnosis: the first rule that matches, or (None, None)
get_rule_based_diagnosis(unhealthy_reason, pod_events, container_logs) ==
    IF Contains(unhealthy_reason, "OOMKilled") THEN <<DiagOOM, RecOOM>>
    ELSE IF Contains(unhealthy_reason, "ImagePullBackOff") THEN <<DiagImagePull, RecImagePull>>
    ELSE IF Contains(pod_events, "FailedScheduling") THEN <<DiagScheduling, RecScheduling>>
    ELSE IF Contains(pod_events, "FailedMount") THEN <<DiagMount, RecMount>>
    ELSE IF Contains(lower(container_logs), "connection refused") THEN <<DiagConnRefused, RecConnRefused>>
    ELSE IF Contains(lower(container_logs), "file not found")
            \/ Contains(lower(container_logs), "no such file or directory")
         THEN <<DiagFileMissing, RecFileMissing>>
    ELSE IF Contains(lower(container_logs), "permission denied") THEN <<DiagPermission, RecPermission>>
    ELSE <<None, None>>

\* ------------------------------------------------------------------ health classifier
WaitingBad == {"CrashLoopBackOff", "ImagePullBackOff", "Error"}

ReasonWaiting(name, reason) ==
    <<"Container '", name, "' is in a waiting state with reason: ", reason>>

\* The first container, in list order, that makes the loop return.
RECURSIVE FirstBadWaiting(_, _)
FirstBadWaiting(css, i) ==
    IF i > Len(css) THEN 0
    ELSE IF css[i].waiting # "None" /\ css[i].waiting \in WaitingBad THEN i
    ELSE FirstBadWaiting(css, i + 1)

\* Mutant: every wait-reason makes the pod unhealthy, not only the three listed.
is_pod_healthy_any_waiting(pod) ==
    IF pod.phase \in {"Failed", "Unknown"}
    THEN <<FALSE, <<"Pod is in a non-running phase: ", pod.phase>> >>
    ELSE IF pod.phase = "Pending"
    THEN <<FALSE, <<"Pod is stuck in Pending phase.">> >>
    ELSE IF pod.statuses_none \/ pod.container_statuses = << >>
    THEN <<FALSE, <<"Pod has no container statuses, may still be initializing.">> >>
    ELSE LET css == pod.container_statuses
         IN IF \E i \in 1..Len(css) : css[i].waiting # "None"
            THEN LET b == CHOOSE i \in 1..Len(css) :
                            /\ css[i].waiting # "None"
                            /\ \A j \in 1..(i - 1) : css[j].waiting = "None"
                 IN <<FALSE, ReasonWaiting(css[b].name, css[b].waiting)>>
            ELSE IF \E i \in 1..Len(css) : ~css[i].ready
            THEN <<FALSE, <<"Not all containers in the pod are ready.">> >>
            ELSE <<TRUE, <<"Healthy">> >>

\* Mutant: the reason names the last termination of a container that is not ready.
is_pod_healthy_reports_termination(pod) ==
    IF pod.phase \in {"Failed", "Unknown"}
    THEN <<FALSE, <<"Pod is in a non-running phase: ", pod.phase>> >>
    ELSE IF pod.phase = "Pending"
    THEN <<FALSE, <<"Pod is stuck in Pending phase.">> >>
    ELSE IF pod.statuses_none \/ pod.container_statuses = << >>
    THEN <<FALSE, <<"Pod has no container statuses, may still be initializing.">> >>
    ELSE LET css == pod.container_statuses
         IN IF \E i \in 1..Len(css) : ~css[i].ready /\ css[i].last_terminated # "None"
            THEN LET b == CHOOSE i \in 1..Len(css) :
                            /\ ~css[i].ready /\ css[i].last_terminated # "None"
                            /\ \A j \in 1..(i - 1) :
                                 ~(~css[j].ready /\ css[j].last_terminated # "None")
                 IN <<FALSE, <<"Container '", css[b].name, "' was terminated: ",
                               css[b].last_terminated>> >>
            ELSE IF \E i \in 1..Len(css) : ~css[i].ready
            THEN <<FALSE, <<"Not all containers in the pod are ready.">> >>
            ELSE <<TRUE, <<"Healthy">> >>

\* _is_pod_healthy: (is_healthy, reason)
is_pod_healthy(pod) ==
    IF pod.phase \in {"Failed", "Unknown"}
    THEN <<FALSE, <<"Pod is in a non-running phase: ", pod.phase>> >>
    ELSE IF pod.phase = "Pending"
    THEN <<FALSE, <<"Pod is stuck in Pending phase.">> >>
    ELSE IF pod.statuses_none \/ pod.container_statuses = << >>
    THEN <<FALSE, <<"Pod has no container statuses, may still be initializing.">> >>
    ELSE LET css == pod.container_statuses
             b == FirstBadWaiting(css, 1)
         IN IF b # 0
            THEN <<FALSE, ReasonWaiting(css[b].name, css[b].waiting)>>
            ELSE IF \E i \in 1..Len(css) : ~css[i].ready
            THEN <<FALSE, <<"Not all containers in the pod are ready.">> >>
            ELSE <<TRUE, <<"Healthy">> >>

\* ------------------------------------------------------------------ diagnostics collector
FormatEvent(e) ==
    <<"- ", e.last_timestamp, " [", e.type, "] ", e.reason, ": ", e.message>>

FormatEvents(items) == [i \in 1..Len(items) |-> FormatEvent(items[i])]

\* The loop over pod.status.container_statuses from container i on; lo[i] is
\* what read_namespaced_pod_log does for container i.
RECURSIVE CollectLogs(_, _, _, _, _)
CollectLogs(css, lo, i, log_messages, made) ==
    IF i > Len(css) THEN [raised |-> "none", log_messages |-> log_messages, calls |-> made]
    ELSE IF css[i].last_terminated = "None"
    THEN CollectLogs(css, lo, i + 1, log_messages, made)
    ELSE LET call == [op |-> "read_namespaced_pod_log", container |-> css[i].name,
                      outcome |-> lo[i].kind]
         IN CASE lo[i].kind = "ok" ->
                   CollectLogs(css, lo, i + 1,
                       Append(log_messages,
                              <<"--- Logs for container '", css[i].name, "' ---\n">> \o lo[i].text),
                       Append(made, call))
              [] lo[i].kind = "ApiException" ->
                   CollectLogs(css, lo, i + 1,
                       Append(log_messages,
                              <<"Could not retrieve logs for previous instance of container '",
                                css[i].name, "'.">>),
                       Append(made, call))
              [] OTHER ->
                   [raised |-> lo[i].kind, log_messages |-> log_messages,
                    calls |-> Append(made, call)]

\* _get_pod_diagnostics; ev is what list_namespaced_event does.
get_pod_diagnostics(pod, ev, lo) ==
    LET evcall == [op |-> "list_namespaced_event", container |-> "", outcome |-> ev.kind]
        events == IF ev.kind = "ok"
                  THEN IF ev.items # << >> THEN Join(FormatEvents(ev.items), <<"\n">>)
                       ELSE <<"No recent events found.">>
                  ELSE <<"Could not retrieve events: ">> \o ev.err
        r == CollectLogs(pod.container_statuses, lo, 1, << >>, <<evcall>>)
    IN IF ev.kind \notin {"ok", "ApiException"}
       THEN [raised |-> ev.kind, events |-> << >>, logs |-> << >>, calls |-> <<evcall>>]
       ELSE IF pod.statuses_none
       THEN [raised |-> "TypeError", events |-> events, logs |-> << >>, calls |-> <<evcall>>]
       ELSE [raised |-> r.raised, events |-> events,
             logs |-> IF r.log_messages # << >> THEN Join(r.log_messages, <<"\n">>)
                      ELSE <<"No logs from previously terminated containers found.">>,
             calls |-> r.calls]

\* ------------------------------------------------------------------ node collector
ClusterNodes ==
    <<[name |-> "node-1", status |-> "True", taints |-> <<"dedicated:infra">>]>>

ClusterNodeEvents ==
    <<"- ", "t0", " [", "Warning", "] ", "NodeNotReady", ": ", "kubelet stopped", " (Node: ", "node-1", ")">>

NodeOutcomes == {"ok", "list_node:ApiException", "OtherError"}

\* get_node_diagnostics: an ApiException is printed and what was collected so
\* far is returned; any other exception leaves the function.
get_node_diagnostics(out) ==
    CASE out = "ok" ->
           [raised |-> "none", nodes |-> ClusterNodes, events |-> ClusterNodeEvents]
      [] out = "list_node:ApiException" ->
           [raised |-> "none", nodes |-> << >>, events |-> <<"No recent node events found.">>]
      [] OTHER ->
           [raised |-> out, nodes |-> << >>, events |-> << >>]

\* ------------------------------------------------------------------ generative fallback
IsSpace(t) == t \in {" ", "\n"}

RECURSIVE strip(_)
strip(s) ==
    IF s = << >> THEN s
    ELSE IF IsSpace(s[1]) THEN strip(Tail(s))
    ELSE IF IsSpace(s[Len(s)]) THEN strip(SubSeq(s, 1, Len(s) - 1))
    ELSE s

\* response.text.replace("Diagnosis: ", "").replace("Recommendation: ", "\nRecommendation: ")
RECURSIVE CleanResponse(_)
CleanResponse(s) ==
    IF s = << >> THEN s
    ELSE IF s[1] = "Diagnosis: " THEN CleanResponse(Tail(s))
    ELSE IF s[1] = "Recommendation: " THEN <<"\nRecommendation:", " ">> \o CleanResponse(Tail(s))
    ELSE <<s[1]>> \o CleanResponse(Tail(s))

\* cleaned_text.split("\nRecommendation:")
RECURSIVE SplitAt(_, _, _)
SplitAt(s, sep, cur) ==
    IF s = << >> THEN <<cur>>
    ELSE IF s[1] = sep THEN <<cur>> \o SplitAt(Tail(s), sep, << >>)
    ELSE SplitAt(Tail(s), sep, Append(cur, s[1]))

LLMResponses ==
    { <<"Diagnosis: ", "The probe fails.", "\n", "Recommendation: ", "Fix the probe.">>,
      <<"Diagnosis: ", "The probe fails.">> }

LLMErrors == {"ResourceExhausted", "ValueError"}

LLMOutcomes ==
    {[kind |-> "ok", text |-> t] : t \in LLMResponses}
    \cup {[kind |-> e, text |-> <<e>>] : e \in LLMErrors}

\* Mutant: only the orchestrator client's ApiException is caught, as in the
\* other handlers of the file.
get_llm_diagnosis_catch_api_only(out) ==
    IF out.kind = "ok"
    THEN LET parts == SplitAt(CleanResponse(out.text), "\nRecommendation:", << >>)
         IN [raised |-> "none",
             pair |-> <<strip(parts[1]),
                        IF Len(parts) > 1 THEN strip(parts[2])
                        ELSE <<"No specific recommendation provided.">> >>]
    ELSE IF out.kind = "ApiException"
    THEN [raised |-> "none",
          pair |-> << <<"LLM analysis failed: ">> \o out.text,
                      <<"Could not get a recommendation from the LLM.">> >>]
    ELSE [raised |-> out.kind, pair |-> <<None, None>>]

\* The try block of _get_llm_diagnosis: generate_content, the parse of the
\* response, and  except Exception.
get_llm_diagnosis(out) ==
    IF out.kind = "ok"
    THEN LET parts == SplitAt(CleanResponse(out.text), "\nRecommendation:", << >>)
         IN [raised |-> "none",
             pair |-> <<strip(parts[1]),
                        IF Len(parts) > 1 THEN strip(parts[2])
                        ELSE <<"No specific recommendation provided.">> >>]
    ELSE [raised |-> "none",
          pair |-> << <<"LLM analysis failed: ">> \o out.text,
                      <<"Could not get a recommendation from the LLM.">> >>]

\* Mutant: the generative service is asked first and the rules are the fallback.
generate_diagnosis_llm_first(unhealthy_reason, pod_events, container_logs, out) ==
    LET llm == get_llm_diagnosis(out)
    IN [raised |-> llm.raised, pair |-> llm.pair, llm_called |-> TRUE]

\* _generate_diagnosis: the rule engine, then the generative fallback.
generate_diagnosis(unhealthy_reason, pod_events, container_logs, out) ==
    LET rule == get_rule_based_diagnosis(unhealthy_reason, pod_events, container_logs)
        llm == get_llm_diagnosis(out)
    IN IF Truthy(rule[1])
       THEN [raised |-> "none", pair |-> rule, llm_called |-> FALSE]
       ELSE [raised |-> llm.raised, pair |-> llm.pair, llm_called |-> TRUE]

\* ------------------------------------------------------------------ inputs
Container(name, ready, waiting, last_terminated) ==
    [name |-> name, ready |-> ready, waiting |-> waiting, last_terminated |-> last_terminated]

Pod(name, phase, statuses_none, container_statuses) ==
    [name |-> name, phase |-> phase, statuses_none |-> statuses_none,
     container_statuses |-> container_statuses]

\* The pods the orchestrator may hold for the selector.
SamplePods ==
    { Pod("web-ok", "Running", FALSE, <<Container("app", TRUE, "None", "None")>>),
      Pod("web-failed", "Failed", FALSE, <<Container("app", FALSE, "None", "Error")>>),
      Pod("web-pending", "Pending", TRUE, << >>),
      Pod("web-init", "Running", FALSE, << >>),
      Pod("web-crash", "Running", FALSE,
          <<Container("app", FALSE, "CrashLoopBackOff", "OOMKilled"),
            Container("sidecar", FALSE, "None", "Error")>>),
      Pod("web-pull", "Running", FALSE,
          <<Container("init", FALSE, "ImagePullBackOff", "None"),
            Container("app", FALSE, "CrashLoopBackOff", "Error")>>) }

\* Pod names are unique within a namespace.
DistinctSeqs(S, n) ==
    {q \in UNION {[1..k -> S] : k \in 0..n} :
        \A i, j \in 1..Len(q) : i # j => q[i].name # q[j].name}

PodLists == DistinctSeqs(SamplePods, MaxPods)

EventReasons == {"FailedMount", "BackOff"}

Events ==
    {[last_timestamp |-> "t1", type |-> "Warning", reason |-> r, message |-> "see kubelet"] :
        r \in EventReasons}

EventLists == UNION {[1..k -> Events] : k \in 0..MaxEvents}

ExternalErrors == {"ApiException", "OtherError"}

EventOutcomes ==
    {[kind |-> "ok", items |-> l, err |-> << >>] : l \in EventLists}
    \cup {[kind |-> k, items |-> << >>, err |-> <<"(500) Reason: Internal Server Error">>] :
            k \in ExternalErrors}

LogTexts == { <<"dial tcp 10.0.0.5:5432: ", "Connection Refused">>, <<"panic: nil map">> }

LogOutcomes ==
    {[kind |-> "ok", text |-> t] : t \in LogTexts}
    \cup {[kind |-> k, text |-> << >>] : k \in ExternalErrors}

KubeConfigs ==
    {[kind |-> "missing_file", cluster |-> ""], [kind |-> "no_active_context", cluster |-> ""],
     [kind |-> "load_error", cluster |-> "staging-eu"],
     [kind |-> "ok", cluster |-> "staging-eu"], [kind |-> "ok", cluster |-> "prod-us"]}

FleetLabels == {None, <<"blue">>}

\* ------------------------------------------------------------------ state
VARIABLES
    pc,                   \* where run() is
    cluster_name,         \* self.cluster_name
    fleet_label,          \* self.fleet_label
    v1_api,               \* self.v1_api is set
    current_cluster_name, \* the cluster of the active context, once read
    pods,                 \* self.pods
    node_diagnostics,     \* analyze_pods' node_diagnostics
    idx,                  \* position of the loop of analyze_pods in self.pods
    reason,               \* analyze_pods' reason for the current pod
    pod_diagnostics,      \* analyze_pods' pod_diagnostics for the current pod
    calls,                \* orchestrator calls of the current _get_pod_diagnostics
    discover_calls,       \* calls of list_namespaced_pod: selector and what the call did
    llm_calls,            \* calls of generate_content: the pod asked about and what the call did
    report,               \* what was printed to standard output, in order
    exc,                  \* the exception that ended the process, if any
    exit_code,            \* the process's exit status; -1 while it runs
    arg,                  \* input of a function applied on its own
    ret                   \* its result

vars == <<pc, cluster_name, fleet_label, v1_api, current_cluster_name, pods, node_diagnostics,
          idx, reason, pod_diagnostics, calls, discover_calls, llm_calls, report, exc,
          exit_code, arg, ret>>

NoDiagnostics == [events |-> << >>, logs |-> << >>]
NoNodeDiagnostics == [nodes |-> << >>, events |-> << >>]

Line(pod, kind, text, diagnosis, recommendation) ==
    [pod |-> pod, kind |-> kind, reason |-> text, diagnosis |-> diagnosis,
     recommendation |-> recommendation]

\* main.py and __init__
Init ==
    /\ pc = "Disconnected"
    /\ cluster_name = "staging-eu"
    /\ fleet_label \in FleetLabels
    /\ v1_api = FALSE
    /\ current_cluster_name = ""
    /\ pods = << >>
    /\ node_diagnostics = NoNodeDiagnostics
    /\ idx = 0
    /\ reason = << >>
    /\ pod_diagnostics = NoDiagnostics
    /\ calls = << >>
    /\ discover_calls = << >>
    /\ llm_calls = << >>
    /\ report = << >>
    /\ exc = "none"
    /\ exit_code = -1
    /\ arg = << >>
    /\ ret = << >>

\* An exception nobody catches ends the process with a traceback.
Crash(e) ==
    /\ pc' = "Crashed"
    /\ exc' = e
    /\ exit_code' = 1

\* _connect_and_validate, and run()'s  except ConnectionError
ConnectAndValidate ==
    /\ pc = "Disconnected"
    /\ \E k \in KubeConfigs :
         IF k.kind = "ok"
         THEN /\ current_cluster_name' = k.cluster
              /\ v1_api' = TRUE
              /\ pc' = "Connected"
              /\ UNCHANGED <<exc, exit_code>>
         ELSE /\ current_cluster_name' = k.cluster
              /\ pc' = "Aborted"
              /\ exc' = "ConnectionError"
              /\ exit_code' = 1
              /\ UNCHANGED v1_api
    /\ UNCHANGED <<cluster_name, fleet_label, pods, node_diagnostics, idx, reason,
                   pod_diagnostics, calls, discover_calls, llm_calls, report, arg, ret>>

label_selector ==
    <<"app=", "web", ",", "country=", "de">>
    \o (IF Truthy(fleet_label) THEN <<",", "fleet=">> \o fleet_label ELSE << >>)

\* Mutant: a failed discovery call is not caught.
DiscoverResult_uncaught(out) ==
    IF out.kind = "ok" THEN [raised |-> "none", pods |-> out.items]
    ELSE [raised |-> out.kind, pods |-> << >>]

\* discover_pods' try block:  except client.ApiException
DiscoverResult(out) ==
    IF out.kind = "ok" THEN [raised |-> "none", pods |-> out.items]
    ELSE IF out.kind = "ApiException" THEN [raised |-> "none", pods |-> << >>]
    ELSE [raised |-> out.kind, pods |-> << >>]

DiscoverOutcomes ==
    {[kind |-> "ok", items |-> l] : l \in PodLists}
    \cup {[kind |-> k, items |-> << >>] : k \in ExternalErrors}

\* discover_pods
DiscoverPods ==
    /\ pc = "Connected"
    /\ \E out \in DiscoverOutcomes :
         LET r == DiscoverResult(out)
         IN /\ discover_calls' = Append(discover_calls,
                                       [label_selector |-> label_selector, outcome |-> out.kind])
            /\ IF r.raised = "none"
               THEN /\ pods' = r.pods
                    /\ pc' = "Discovered"
                    /\ UNCHANGED <<exc, exit_code>>
               ELSE /\ Crash(r.raised)
                    /\ UNCHANGED pods
    /\ UNCHANGED <<cluster_name, fleet_label, v1_api, current_cluster_name, node_diagnostics,
                   idx, reason, pod_diagnostics, calls, llm_calls, report, arg, ret>>

\* run():  if self.pods  is false, and run() returns
SkipAnalysis ==
    /\ pc = "Discovered"
    /\ pods = << >>
    /\ pc' = "Reported"
    /\ exit_code' = 0
    /\ UNCHANGED <<cluster_name, fleet_label, v1_api, current_cluster_name, pods,
                   node_diagnostics, idx, reason, pod_diagnostics, calls, discover_calls,
                   llm_calls, report, exc, arg, ret>>

\* analyze_pods up to its loop
AnalyzeStart ==
    /\ pc = "Discovered"
    /\ pods # << >>
    /\ \E out \in NodeOutcomes :
         LET r == get_node_diagnostics(out)
         IN IF r.raised = "none"
            THEN /\ node_diagnostics' = [nodes |-> r.nodes, events |-> r.events]
                 /\ idx' = 1
                 /\ pc' = "Classify"
                 /\ UNCHANGED <<exc, exit_code>>
            ELSE /\ Crash(r.raised)
                 /\ UNCHANGED <<node_diagnostics, idx>>
    /\ UNCHANGED <<cluster_name, fleet_label, v1_api, current_cluster_name, pods, reason,
                   pod_diagnostics, calls, discover_calls, llm_calls, report, arg, ret>>

\* The loop of analyze_pods moves to the next pod, or analyze_pods and run() return.
NextPod ==
    /\ idx' = idx + 1
    /\ reason' = << >>
    /\ pod_diagnostics' = NoDiagnostics
    /\ calls' = << >>
    /\ IF idx < Len(pods)
       THEN pc' = "Classify" /\ UNCHANGED exit_code
       ELSE pc' = "Reported" /\ exit_code' = 0

\* One iteration of the loop: _is_pod_healthy and the line printed for the pod
Classify ==
    /\ pc = "Classify"
    /\ LET pod == pods[idx]
           h == is_pod_healthy(pod)
       IN IF h[1]
          THEN /\ report' = Append(report, Line(pod.name, "HEALTHY", << >>, << >>, << >>))
               /\ NextPod
          ELSE /\ report' = Append(report, Line(pod.name, "UNHEALTHY", h[2], << >>, << >>))
               /\ reason' = h[2]
               /\ pc' = "Collect"
               /\ UNCHANGED <<idx, pod_diagnostics, calls, exit_code>>
    /\ UNCHANGED <<cluster_name, fleet_label, v1_api, current_cluster_name, pods,
                   node_diagnostics, discover_calls, llm_calls, exc, arg, ret>>

\* The containers whose previous-run log is asked for.
Terminated(css) == {i \in 1..Len(css) : css[i].last_terminated # "None"}

\* _get_pod_diagnostics for the current pod
Collect ==
    /\ pc = "Collect"
    /\ LET pod == pods[idx]
       IN \E ev \in EventOutcomes :
          \E lo \in [Terminated(pod.container_statuses) -> LogOutcomes] :
            LET r == get_pod_diagnostics(pod, ev, lo)
            IN /\ calls' = r.calls
               /\ IF r.raised = "none"
                  THEN /\ pod_diagnostics' = [events |-> r.events, logs |-> r.logs]
                       /\ pc' = "Diagnose"
                       /\ UNCHANGED <<exc, exit_code>>
                  ELSE /\ Crash(r.raised)
                       /\ UNCHANGED pod_diagnostics
    /\ UNCHANGED <<cluster_name, fleet_label, v1_api, current_cluster_name, pods,
                   node_diagnostics, idx, reason, discover_calls, llm_calls, report, arg, ret>>

\* _generate_diagnosis for the current pod and the diagnosis block printed
Diagnose ==
    /\ pc = "Diagnose"
    /\ LET pod == pods[idx]
       IN \E out \in LLMOutcomes :
            LET r == generate_diagnosis(reason, pod_diagnostics.events, pod_diagnostics.logs, out)
            IN /\ llm_calls' = IF r.llm_called
                                THEN Append(llm_calls, [pod |-> pod.name, outcome |-> out.kind])
                                ELSE llm_calls
               /\ IF r.raised = "none"
                  THEN /\ report' = Append(report,
                                        Line(pod.name, "DIAGNOSIS", << >>, r.pair[1], r.pair[2]))
                       /\ NextPod
                       /\ UNCHANGED exc
                  ELSE /\ Crash(r.raised)
                       /\ UNCHANGED <<report, idx, reason, pod_diagnostics, calls>>
    /\ UNCHANGED <<cluster_name, fleet_label, v1_api, current_cluster_name, pods,
                   node_diagnostics, discover_calls, arg, ret>>

Next ==
    \/ ConnectAndValidate
    \/ DiscoverPods
    \/ SkipAnalysis
    \/ AnalyzeStart
    \/ Classify
    \/ Collect
    \/ Diagnose

Spec == Init /\ [][Next]_vars

\* ------------------------------------------------------------------ functions on their own
Phases == {"Pending", "Running", "Succeeded", "Failed", "Unknown"}

WaitReasons == {"None", "CrashLoopBackOff", "ImagePullBackOff", "Error", "ContainerCreating"}

TerminationReasons == {"None", "OOMKilled"}

ContainerNames == <<"c1", "c2", "c3", "c4">>

ContainerAttrs == BOOLEAN \X WaitReasons \X TerminationReasons

StatusLists ==
    UNION {{[i \in 1..k |-> Container(ContainerNames[i], a[i][1], a[i][2], a[i][3])] :
               a \in [1..k -> ContainerAttrs]} : k \in 0..MaxContainers}

PodUniverse ==
    {Pod("web-0", ph, FALSE, css) : ph \in Phases, css \in StatusLists}
    \cup {Pod("web-0", ph, TRUE, << >>) : ph \in Phases}

Texts(toks) == UNION {[1..k -> toks] : k \in 0..MaxTokens}

ReasonTokens ==
    {"OOMKilled", "ImagePullBackOff", "CrashLoopBackOff", "Not all containers in the pod are ready."}

EventTokens == {"FailedScheduling", "FailedMount", "BackOff"}

LogTokens ==
    {"Connection Refused", "No such file or directory", "File Not Found", "Permission denied",
     "panic: nil map"}

RuleInputs ==
    [reason : Texts(ReasonTokens), events : Texts(EventTokens), logs : Texts(LogTokens)]

InitFunction(inputs) ==
    /\ pc = "call"
    /\ arg \in inputs
    /\ ret = << >>
    /\ cluster_name = "staging-eu"
    /\ fleet_label = None
    /\ v1_api = FALSE
    /\ current_cluster_name = ""
    /\ pods = << >>
    /\ node_diagnostics = NoNodeDiagnostics
    /\ idx = 0
    /\ reason = << >>
    /\ pod_diagnostics = NoDiagnostics
    /\ calls = << >>
    /\ discover_calls = << >>
    /\ llm_calls = << >>
    /\ report = << >>
    /\ exc = "none"
    /\ exit_code = -1

Return(value) ==
    /\ pc = "call"
    /\ pc' = "return"
    /\ ret' = value
    /\ UNCHANGED <<cluster_name, fleet_label, v1_api, current_cluster_name, pods,
                   node_diagnostics, idx, reason, pod_diagnostics, calls, discover_calls,
                   llm_calls, report, exc, exit_code, arg>>

InitHealth == InitFunction(PodUniverse)

IsPodHealthyCall == Return(is_pod_healthy(arg))

SpecHealth == InitHealth /\ [][IsPodHealthyCall]_vars

InitRules == InitFunction(RuleInputs)

RuleBasedDiagnosisCall == Return(get_rule_based_diagnosis(arg.reason, arg.events, arg.logs))

SpecRules == InitRules /\ [][RuleBasedDiagnosisCall]_vars

\* ------------------------------------------------------------------ properties
\* The rule table of the specification, row by row: the text a row reads, the
\* patterns it looks for, whether letter case is ignored, and its pair.
Row(field, patterns, ignore_case, diagnosis, recommendation) ==
    [field |-> field, patterns |-> patterns, ignore_case |-> ignore_case,
     pair |-> <<diagnosis, recommendation>>]

CanonicalTable ==
    << Row("reason", {"OOMKilled"}, FALSE, DiagOOM, RecOOM),
       Row("reason", {"ImagePullBackOff"}, FALSE, DiagImagePull, RecImagePull),
       Row("events", {"FailedScheduling"}, FALSE, DiagScheduling, RecScheduling),
       Row("events", {"FailedMount"}, FALSE, DiagMount, RecMount),
       Row("logs", {"connection refused"}, TRUE, DiagConnRefused, RecConnRefused),
       Row("logs", {"file not found", "no such file or directory"}, TRUE,
           DiagFileMissing, RecFileMissing),
       Row("logs", {"permission denied"}, TRUE, DiagPermission, RecPermission),
       Row("reason", {"CrashLoopBackOff"}, FALSE,
           <<"unrecognized application crash">>, <<"inspect logs for stack trace">>) >>

RowsOfCode == SubSeq(CanonicalTable, 1, Len(CanonicalTable) - 1)

RowMatches(row, in) ==
    LET text == IF row.ignore_case THEN lower(in[row.field]) ELSE in[row.field]
    IN \E p \in row.patterns : Contains(text, p)

AnyRowMatches(table, in) == \E k \in 1..Len(table) : RowMatches(table[k], in)

FirstRowPair(table, in) ==
    IF AnyRowMatches(table, in)
    THEN table[CHOOSE k \in 1..Len(table) :
                  /\ RowMatches(table[k], in)
                  /\ \A j \in 1..(k - 1) : ~RowMatches(table[j], in)].pair
    ELSE <<None, None>>

Collected == [reason |-> reason, events |-> pod_diagnostics.events, logs |-> pod_diagnostics.logs]

DiagnosisLines(name) ==
    {j \in 1..Len(report) : report[j].pod = name /\ report[j].kind = "DIAGNOSIS"}

Unhealthy(pod) == ~is_pod_healthy(pod)[1]

\* C1: when the cluster of the active context is not the configured
\* cluster_name, or there is no active context or no config file, run() ends
\* Aborted with exit code 1 and list_namespaced_pod is never called.
C1_MismatchAborts ==
    (pc # "Disconnected" /\ current_cluster_name # cluster_name)
        => (pc = "Aborted" /\ exit_code = 1 /\ discover_calls = << >>)

\* C2: every instance classified unhealthy, by whichever rule, is collected and
\* diagnosed to completion: the run does not abort between its classification
\* and its diagnosis, and once the run has reported, each unhealthy instance of
\* the list has exactly one diagnosis.  (An abort by an exception of an
\* external call that is not the client's ApiException is left aside here.)
C2_UnhealthyAlwaysDiagnosed ==
    /\ (pc = "Crashed" /\ reason # << >>) => exc = "OtherError"
    /\ pc = "Reported" =>
         \A i \in 1..Len(pods) :
            Unhealthy(pods[i]) => Cardinality(DiagnosisLines(pods[i].name)) = 1

\* C3: when the event-list call of _get_pod_diagnostics fails with the
\* client's ApiException, no exception leaves the function because of it, the
\* events text holds the error, and the previous-run log of every container
\* with a last termination is asked for afterwards; a log fetch that fails the
\* same way is recorded inline and the later containers are still asked for.
C3_CollectionNeverAborts ==
    (calls # << >> /\ calls[1].outcome = "ApiException") =>
        /\ exc # "TypeError"
        /\ exc = "none" =>
             /\ pod_diagnostics.events = <<"Could not retrieve events: ",
                                           "(500) Reason: Internal Server Error">>
             /\ \A i \in Terminated(pods[idx].container_statuses) :
                  \E c \in 2..Len(calls) :
                     calls[c].container = pods[idx].container_statuses[i].name

DiscoveryFailed == discover_calls # << >> /\ discover_calls[1].outcome # "ok"

EmptyRun ==
    /\ pc \in {"Discovered", "Reported"}
    /\ pods = << >>
    /\ report = << >>
    /\ calls = << >>
    /\ llm_calls = << >>
    /\ exc = "none"
    /\ pc = "Discovered" => ENABLED SkipAnalysis
    /\ pc = "Reported" => exit_code = 0

\* C4 as stated: after any failure of the discovery call the run reports
\* nothing and ends with exit code 0, as for an empty list.
C4_AnyDiscoveryFailureIsEmptyRun == DiscoveryFailed => EmptyRun

\* C4 as amended: after a discovery call that raised the client's ApiException
\* the run goes to Reported with no classification and no diagnosis and exits
\* with code 0, exactly as after a discovery call that returned an empty list.
C4_ApiExceptionIsEmptyRun ==
    (/\ discover_calls # << >>
     /\ \/ discover_calls[1].outcome = "ApiException"
        \/ discover_calls[1].outcome = "ok" /\ pods = << >>)
        => EmptyRun

C4_Witness ==
    /\ discover_calls # << >>
    /\ discover_calls[1].outcome = "ApiException"
    /\ pc = "Reported"
    /\ exit_code = 0

FailedLLMLine(call) ==
    Line(call.pod, "DIAGNOSIS", << >>, <<"LLM analysis failed: ", call.outcome>>,
         <<"Could not get a recommendation from the LLM.">>)

\* C5: no failure of generate_content ends the run: each failed call is
\* reported as the diagnosis "LLM analysis failed: <error>" with the sentinel
\* recommendation, and the instances after it are still reported.
C5_LLMFailureIsDegradedResult ==
    /\ exc \notin LLMErrors
    /\ \A k \in 1..Len(llm_calls) :
         llm_calls[k].outcome \in LLMErrors =>
            /\ \E j \in 1..Len(report) : report[j] = FailedLLMLine(llm_calls[k])
            /\ pc = "Reported" =>
                 \A i \in 1..Len(pods) : \E j \in 1..Len(report) : report[j].pod = pods[i].name

C5_Witness ==
    /\ pc = "Reported"
    /\ Len(pods) = 2
    /\ llm_calls # << >>
    /\ llm_calls[1].pod = pods[1].name
    /\ llm_calls[1].outcome \in LLMErrors
    /\ \E j \in 1..Len(report) : report[j] = FailedLLMLine(llm_calls[1])
    /\ \E j \in 1..Len(report) : report[j].pod = pods[2].name

\* C6: in every step of _generate_diagnosis, if a rule matches what was
\* collected the diagnosis printed is that rule's pair and generate_content is
\* not called; if no rule matches, generate_content is called exactly once,
\* for the current pod.
C6_RuleFirstLLMOnlyOnMiss ==
    /\ [](\A a, b \in 1..Len(llm_calls) : a # b => llm_calls[a].pod # llm_calls[b].pod)
    /\ [][pc = "Diagnose" =>
        IF AnyRowMatches(RowsOfCode, Collected)
        THEN /\ llm_calls' = llm_calls
             /\ report' = Append(report,
                    Line(pods[idx].name, "DIAGNOSIS", << >>,
                         FirstRowPair(RowsOfCode, Collected)[1],
                         FirstRowPair(RowsOfCode, Collected)[2]))
        ELSE /\ Len(llm_calls') = Len(llm_calls) + 1
             /\ llm_calls'[Len(llm_calls')].pod = pods[idx].name
             /\ SubSeq(llm_calls', 1, Len(llm_calls)) = llm_calls]_vars

C6_Witness ==
    /\ pc = "Reported"
    /\ \E j \in 1..Len(report) : report[j].kind = "DIAGNOSIS" /\ report[j].diagnosis = DiagMount
    /\ Len(llm_calls) = 1
    /\ llm_calls[1].pod \notin {report[j].pod : j \in {i \in 1..Len(report) :
                                                       report[i].diagnosis = DiagMount}}

\* C7 as stated: the rule engine returns no-match exactly when none of the
\* eight rows of the table matches, and otherwise the pair of the first row
\* that matches.
C7_EightRowTable == pc = "return" => ret = FirstRowPair(CanonicalTable, arg)

\* C7 as amended: the rule engine returns no-match exactly when none of the
\* first seven rows matches ('reason contains "OOMKilled"' through 'logs
\* contain "permission denied"'), and otherwise the pair of the first of these
\* that matches; a reason that contains "CrashLoopBackOff" matches no rule.
C7_SevenRowTable == pc = "return" => ret = FirstRowPair(RowsOfCode, arg)

C7_Witness ==
    /\ pc = "return"
    /\ Contains(arg.reason, "CrashLoopBackOff")
    /\ ~AnyRowMatches(RowsOfCode, arg)
    /\ ret = <<None, None>>

AllReady(pod) ==
    \A i \in 1..Len(pod.container_statuses) : pod.container_statuses[i].ready

\* C8 as stated: a Running instance all of whose containers are ready is
\* healthy, whatever the wait-reasons and whatever the length of the list.
C8_RunningAllReadyIsHealthy ==
    (pc = "return" /\ arg.phase = "Running" /\ AllReady(arg)) => ret[1]

\* C8 as amended: a Running instance with at least one container, all of whose
\* containers are ready and none of which waits with CrashLoopBackOff,
\* ImagePullBackOff or Error, is healthy.
C8_RunningReadyNotWaitingIsHealthy ==
    (/\ pc = "return"
     /\ arg.phase = "Running"
     /\ ~arg.statuses_none
     /\ arg.container_statuses # << >>
     /\ AllReady(arg)
     /\ \A i \in 1..Len(arg.container_statuses) :
          arg.container_statuses[i].waiting \notin {"CrashLoopBackOff", "ImagePullBackOff", "Error"})
        => (ret[1] /\ ret[2] = <<"Healthy">>)

C8_Witness ==
    /\ pc = "return"
    /\ arg.phase = "Running"
    /\ Len(arg.container_statuses) = 2
    /\ AllReady(arg)
    /\ arg.container_statuses[2].waiting = "ContainerCreating"
    /\ arg.container_statuses[1].waiting = "None"
    /\ ret[1]

CrashLooping(pod) ==
    \E i \in 1..Len(pod.container_statuses) :
        pod.container_statuses[i].waiting = "CrashLoopBackOff"

UpstreamLine(name) == Line(name, "DIAGNOSIS", << >>, DiagConnRefused, RecConnRefused)

\* C9 as stated: an instance with a container in CrashLoopBackOff whose
\* collected logs contain "connection refused" in any letter case is given
\* the upstream-dependency pair, whatever its events, without a call of
\* generate_content.
C9_CrashLoopConnRefused ==
    [][(/\ pc = "Diagnose"
        /\ CrashLooping(pods[idx])
        /\ Contains(lower(pod_diagnostics.logs), "connection refused"))
         => (/\ report' = Append(report, UpstreamLine(pods[idx].name))
             /\ llm_calls' = llm_calls)]_vars

\* C9 as amended: such an instance is given the upstream-dependency pair,
\* without a call of generate_content, provided its events text contains
\* neither "FailedScheduling" nor "FailedMount" and the classifier's reason
\* does not contain "ImagePullBackOff" (no container waiting with
\* ImagePullBackOff comes before the crash-looping one).
C9_CrashLoopConnRefusedNoEarlierRule ==
    [][(/\ pc = "Diagnose"
        /\ CrashLooping(pods[idx])
        /\ Contains(lower(pod_diagnostics.logs), "connection refused")
        /\ ~Contains(pod_diagnostics.events, "FailedScheduling")
        /\ ~Contains(pod_diagnostics.events, "FailedMount")
        /\ ~Contains(reason, "ImagePullBackOff"))
         => (/\ report' = Append(report, UpstreamLine(pods[idx].name))
             /\ llm_calls' = llm_calls)]_vars

C9_Witness ==
    /\ \E j \in 1..Len(report) : report[j] = UpstreamLine("web-crash")
    /\ llm_calls = << >>

\* C10: the reason handed to the rule engine never contains "OOMKilled", so
\* the first rule never fires: no instance is given the memory-limit pair,
\* not even one whose container was OOM-killed.
C10_OOMRuleNeverFires ==
    /\ ~Contains(reason, "OOMKilled")
    /\ \A j \in 1..Len(report) :
         /\ ~Contains(report[j].reason, "OOMKilled")
         /\ report[j].diagnosis # DiagOOM

C10_Witness ==
    /\ \E i \in 1..Len(pods) :
         /\ \E c \in 1..Len(pods[i].container_statuses) :
              pods[i].container_statuses[c].last_terminated = "OOMKilled"
         /\ DiagnosisLines(pods[i].name) # {}
         /\ \A j \in DiagnosisLines(pods[i].name) : report[j].diagnosis # DiagOOM
====
